---- MODULE Spec2Model ----
(***************************************************************************)
(* The in-memory blob store of iroh (iroh/src/baomap/mem.rs): the two maps *)
(* `complete` and `partial` behind one RwLock, the shared mutable buffers  *)
(* (MutableMemFile = Arc<RwLock<BytesMut>>) of partial entries, and the    *)
(* operations get, get_partial, get_or_create_partial, insert_complete,    *)
(* import, import_bytes and export, run by concurrent threads.             *)
(*                                                                         *)
(* Sizes are scaled: a content byte is 0 or 1, a block is BlockSize bytes, *)
(* an export chunk is ChunkSize bytes, and one cell of an outboard buffer  *)
(* stands for the 8-byte size prefix or for one 64-byte pair of hashes.    *)
(***************************************************************************)
EXTENDS Integers, Sequences, FiniteSets, TLC

\* ---------------------------------------------------------------- bounds
\* Longest content / largest partial size, in bytes.
MaxLen == 2
\* Number of get_or_create_partial calls in one behaviour.
MaxAllocs == 2
\* Number of progress ids one behaviour may draw.
MaxIds == 4
\* Longest chain of intermediate certificates presented.
MaxIntermediates == 1

\* IROH_BLOCK_SIZE, scaled to one byte per block.
BlockSize == 1
\* The chunk length of export_sync (1024 * 1024), scaled.
ChunkSize == 1
\* usize::MAX of a target whose usize is narrower than u64, scaled.
UsizeMax == 3

Threads == {"t1", "t2"}
Byte == {0, 1}

\* ------------------------------------------------------- sequences helpers
RECURSIVE Pow2(_)
Pow2(n) == IF n = 0 THEN 1 ELSE 2 * Pow2(n - 1)

Ones(n) == [i \in 1..n |-> 1]
Fill(n, z) == [i \in 1..n |-> z]

Take(s, n) == SubSeq(s, 1, IF n < Len(s) THEN n ELSE Len(s))
Drop(s, n) == SubSeq(s, n + 1, Len(s))

\* ------------------------------------------------------------- tree hashing
\* A collision-free stand-in for blake3: the hash of a byte string is the
\* number whose binary digits are 1 followed by the bytes.  0 is a hash no
\* content has.
RECURSIVE LeafHash(_)
LeafHash(b) == IF Len(b) = 0 THEN 1 ELSE 2 * LeafHash(Take(b, Len(b) - 1)) + b[Len(b)]

RECURSIVE BitLen(_)
BitLen(h) == IF h <= 1 THEN 0 ELSE 1 + BitLen(h \div 2)

\* The hash of an inner node from the hashes of its two children.
ParentHash(l, r) == l * Pow2(BitLen(r)) + (r - Pow2(BitLen(r)))

\* Number of blocks of a content of n bytes (an empty content has one block).
Blocks(n) == IF n = 0 THEN 1 ELSE (n + BlockSize - 1) \div BlockSize

\* The largest power of two below n (n >= 2): the blocks of the left subtree.
RECURSIVE LeftBlocks(_)
LeftBlocks(n) == IF n <= 2 THEN 1 ELSE 2 * LeftBlocks((n + 1) \div 2)

LeftPart(b) == Take(b, LeftBlocks(Blocks(Len(b))) * BlockSize)
RightPart(b) == Drop(b, LeftBlocks(Blocks(Len(b))) * BlockSize)

\* Root hash of the tree over b.
RECURSIVE TreeHash(_)
TreeHash(b) ==
    IF Blocks(Len(b)) = 1 THEN LeafHash(b)
    ELSE ParentHash(TreeHash(LeftPart(b)), TreeHash(RightPart(b)))

\* The hash pairs of the inner nodes, in pre-order.
RECURSIVE PreOrderPairs(_)
PreOrderPairs(b) ==
    IF Blocks(Len(b)) = 1 THEN << >>
    ELSE << <<TreeHash(LeftPart(b)), TreeHash(RightPart(b))>> >>
         \o PreOrderPairs(LeftPart(b)) \o PreOrderPairs(RightPart(b))

\* BaoTree::new(ByteNum(size), IROH_BLOCK_SIZE): the tree metadata is the size.
BaoTreeNew(size) == size

\* outboard_size(size, IROH_BLOCK_SIZE): the size prefix and one cell per pair.
OutboardSize(size) == 1 + (Blocks(size) - 1)

\* bao_tree::io::outboard(&bytes, IROH_BLOCK_SIZE): (outboard bytes, root hash).
SizeCell(n) == <<0 - 1, n>>
ZeroCell == <<0, 0>>
OutboardOf(b) == << SizeCell(Len(b)) >> \o PreOrderPairs(b)

\* The hash partial entries are allocated for.
TargetHash == TreeHash(Ones(MaxLen))

\* ----------------------------------------------------------------- inputs
\* Contents that are imported, and the hashes partial entries are asked for.
Inputs == {Ones(n) : n \in 1..MaxLen}
InputHashes == {TreeHash(b) : b \in Inputs}


\* ------------------------------------------------------------------ state
VARIABLES
    complete,   \* State.complete: hash -> [data, root, tree, ob], immutable bytes
    partial,    \* State.partial: hash -> [data, root, tree, ob], buffer ids
    bufs,       \* the BytesMut behind each MutableMemFile, by buffer id
    allocs,     \* the PartialEntry handles handed out, in order of creation
    pc,         \* where each thread is in its current operation
    ic,         \* locals of a running insert_complete, per thread
    lastGet,    \* what the latest get / get_partial returned
    ret,        \* what each thread's latest import / export returned
    imp,        \* locals of a running import / import_bytes, per thread
    nextId,     \* the id generator of the progress sender
    msgs,       \* the progress messages of each thread's latest import call
    ex,         \* locals of a running export, per thread
    readers,    \* the threads holding the read lock on State
    dirs,       \* the directories of the file system
    files,      \* the files of the file system: path -> [bytes, open]
    listing,    \* what the latest blobs / partial_blobs returned
    call,       \* the latest get / get_partial call: its name and its hash
    viewRet,    \* what the latest write through a view of an Entry returned
    tls         \* the latest certificate verification: its inputs and result

storeVars == <<complete, partial, bufs, allocs, ic, lastGet>>
importVars == <<imp, nextId, msgs>>
exportVars == <<ex, readers, dirs, files>>
readVars == <<listing, call, viewRet>>
tlsVars == <<tls>>
vars == <<complete, partial, bufs, allocs, pc, ic, lastGet, ret,
          imp, nextId, msgs, ex, readers, dirs, files,
          listing, call, viewRet, tls>>

\* --------------------------------------------------------------- map helpers
Has(m, h) == h \in DOMAIN m
MapInsert(m, h, v) == [x \in DOMAIN m \cup {h} |-> IF x = h THEN v ELSE m[x]]
MapRemove(m, h) == [x \in DOMAIN m \ {h} |-> m[x]]
EmptyMap == [x \in {} |-> 0]

\* An allocation that hands out the first data buffer again.
DataBufReused(i) == 1
\* The buffers of the i-th handle: MutableMemFile clones share the buffer.
DataBuf(i) == 2 * i - 1
ObBuf(i) == 2 * i
BufIds == 1..(2 * MaxAllocs)

\* PartialEntry { hash, outboard: PreOrderOutboard { root, tree, data }, data }
PartialEntryOf(i) ==
    [hash |-> allocs[i].hash, root |-> allocs[i].hash, tree |-> allocs[i].tree,
     data |-> DataBuf(i), ob |-> ObBuf(i)]

\* ------------------------------------------------------------ MutableMemFile
\* A with_capacity that also sets the length, zero-filled.
WithCapacityZeroed(capacity) == Fill(capacity, 0)
\* MutableMemFile::with_capacity: BytesMut::with_capacity reserves, length 0.
WithCapacity(capacity) == << >>

\* <BytesMut as AsyncSliceWriter>::write_at: grows with zeros up to the end of
\* the write, then copies the data in.
WriteAtBuf(buf, offset, data, zero) ==
    LET end == offset + Len(data)
        base == IF end > Len(buf) THEN buf \o Fill(end - Len(buf), zero) ELSE buf
    IN  [i \in 1..Len(base) |->
            IF i > offset /\ i <= end THEN data[i - offset] ELSE base[i]]

\* <BytesMut as AsyncSliceWriter>::set_len: resize(len, 0).
SetLenBuf(buf, len, zero) ==
    IF len <= Len(buf) THEN Take(buf, len) ELSE buf \o Fill(len - Len(buf), zero)

\* A freeze that leaves the bytes in the shared container.
FreezeLeavesKept(buf) == buf
\* MutableMemFile::freeze: what is left in the shared container after the swap.
FreezeLeaves(buf) == << >>
\* MutableMemFile::freeze: the Bytes returned.
FreezeReturns(buf) == buf

\* The buffers a running insert_complete has already frozen: the data buffer
\* once it is past `entry.data.freeze()`, the outboard buffer once it is past
\* `entry.outboard.data.freeze()`.
FrozenBufs ==
    {DataBuf(ic[t].entry) : t \in {u \in Threads : pc[u] \in {"ic_freeze_outboard", "ic_insert"}}}
    \cup {ObBuf(ic[t].entry) : t \in {u \in Threads : pc[u] = "ic_insert"}}

\* ------------------------------------------------------------------- lookups
NoEntry ==
    [src |-> "none", hash |-> 0, root |-> 0, tree |-> 0,
     dataTag |-> "none", dataBytes |-> << >>, dataBuf |-> 0, dataFrozen |-> FALSE,
     obTag |-> "none", obBytes |-> << >>, obBuf |-> 0, obFrozen |-> FALSE]

\* The Entry built from a complete value: both views MemFile::Immutable.
CompleteView(hash) ==
    [src |-> "complete", hash |-> hash,
     root |-> complete[hash].root, tree |-> complete[hash].tree,
     dataTag |-> "Immutable", dataBytes |-> complete[hash].data, dataBuf |-> 0,
     dataFrozen |-> FALSE,
     obTag |-> "Immutable", obBytes |-> complete[hash].ob, obBuf |-> 0,
     obFrozen |-> FALSE]

\* The Entry built from a partial value: both views MemFile::Mutable, clones
\* of the registered buffers.
PartialView(hash) ==
    [src |-> "partial", hash |-> hash,
     root |-> partial[hash].root, tree |-> partial[hash].tree,
     dataTag |-> "Mutable", dataBytes |-> << >>, dataBuf |-> partial[hash].data,
     dataFrozen |-> partial[hash].data \in FrozenBufs,
     obTag |-> "Mutable", obBytes |-> << >>, obBuf |-> partial[hash].ob,
     obFrozen |-> partial[hash].ob \in FrozenBufs]

\* A get that looks into the partial map first.
GetResultPartialFirst(hash) ==
    IF Has(partial, hash) THEN PartialView(hash)
    ELSE IF Has(complete, hash) THEN CompleteView(hash)
    ELSE NoEntry
\* Store::get: complete first, then partial, else None.
GetResult(hash) ==
    IF Has(complete, hash) THEN CompleteView(hash)
    ELSE IF Has(partial, hash) THEN PartialView(hash)
    ELSE NoEntry

\* A get_partial that answers like get.
GetPartialResultAny(hash) == GetResult(hash)
\* Store::get_partial: the partial map only.
GetPartialResult(hash) ==
    IF Has(partial, hash) THEN PartialView(hash) ELSE NoEntry

NoCall == [op |-> "none", hash |-> 0]

\* The keys of a map in the order a BTreeMap yields them.
RECURSIVE SortedSeq(_)
SortedSeq(S) ==
    IF S = {} THEN << >>
    ELSE LET m == CHOOSE x \in S : \A y \in S : x <= y
         IN  << m >> \o SortedSeq(S \ {m})

NoListing == [op |-> "none", items |-> << >>]

\* A listing that walks both maps.
BlobsKeysAll == DOMAIN complete \cup DOMAIN partial
\* Store::blobs: `complete.keys().cloned().collect::<Vec<_>>()`.
BlobsKeys == DOMAIN complete
\* Store::partial_blobs: `partial.keys().cloned().collect::<Vec<_>>()`.
PartialBlobsKeys == DOMAIN partial

\* A lock that lets a writer in while a read guard is held.
CanWriteUnguarded == TRUE
\* The RwLock on State: a writer waits while a read guard is held.
CanWrite == readers = {}

\* -------------------------------------------------------------------- Store
Idle(t) == pc[t] = "idle"

Get(t, hash) ==
    /\ Idle(t)
    /\ lastGet' = GetResult(hash)
    /\ call' = [op |-> "get", hash |-> hash]
    /\ UNCHANGED <<complete, partial, bufs, allocs, pc, ic>>
    /\ UNCHANGED <<ret, listing, viewRet, tlsVars, importVars, exportVars>>

GetPartial(t, hash) ==
    /\ Idle(t)
    /\ lastGet' = GetPartialResult(hash)
    /\ call' = [op |-> "get_partial", hash |-> hash]
    /\ UNCHANGED <<complete, partial, bufs, allocs, pc, ic>>
    /\ UNCHANGED <<ret, listing, viewRet, tlsVars, importVars, exportVars>>

\* Store::blobs: the keys are collected into a Vec under the read guard, and
\* the iterator returned owns that Vec.
Blobs(t) ==
    /\ Idle(t)
    /\ listing' = [op |-> "blobs", items |-> SortedSeq(BlobsKeys)]
    /\ UNCHANGED <<complete, partial, bufs, allocs, pc, ic, lastGet>>
    /\ UNCHANGED <<ret, call, viewRet, tlsVars, importVars, exportVars>>

\* Store::partial_blobs.
PartialBlobs(t) ==
    /\ Idle(t)
    /\ listing' = [op |-> "partial_blobs", items |-> SortedSeq(PartialBlobsKeys)]
    /\ UNCHANGED <<complete, partial, bufs, allocs, pc, ic, lastGet>>
    /\ UNCHANGED <<ret, call, viewRet, tlsVars, importVars, exportVars>>

NoViewRet == [op |-> "none", view |-> "none", tag |-> "none", result |-> "none"]

\* A MemFile writer that passes every write on.
MemFileWriteUnchecked(tag) == "Ok"
\* impl AsyncSliceWriter for MemFile: Immutable answers the error "cannot
\* write to immutable data"; Mutable hands over to the MutableMemFile, whose
\* BytesMut writer answers Ok.
MemFileWrite(tag) == IF tag = "Immutable" THEN "Err" ELSE "Ok"

\* The view of the Entry held by the reader: data_reader() or outboard().data.
ViewTag(view) == IF view = "data" THEN lastGet.dataTag ELSE lastGet.obTag
ViewBuf(view) == IF view = "data" THEN lastGet.dataBuf ELSE lastGet.obBuf
ViewZero(view) == IF view = "data" THEN 0 ELSE ZeroCell

\* A write of kind op through a view, changing the buffer to newBuf when
\* the view is Mutable.
ViewOp(t, op, view, newBuf) ==
    /\ Idle(t)
    /\ lastGet.src # "none"
    /\ viewRet' = [op |-> op, view |-> view, tag |-> ViewTag(view),
                   result |-> MemFileWrite(ViewTag(view))]
    /\ bufs' = IF ViewTag(view) = "Mutable"
               THEN [bufs EXCEPT ![ViewBuf(view)] = newBuf]
               ELSE bufs
    /\ UNCHANGED <<complete, partial, allocs, pc, ic, lastGet>>
    /\ UNCHANGED <<ret, listing, call, tlsVars, importVars, exportVars>>

\* MemFile::write_at.
ViewWriteAt(t, view, offset, data) ==
    ViewOp(t, "write_at", view,
           IF ViewTag(view) = "Mutable"
           THEN WriteAtBuf(bufs[ViewBuf(view)], offset, data, ViewZero(view))
           ELSE << >>)

\* MemFile::write_bytes_at.
ViewWriteBytesAt(t, view, offset, data) ==
    ViewOp(t, "write_bytes_at", view,
           IF ViewTag(view) = "Mutable"
           THEN WriteAtBuf(bufs[ViewBuf(view)], offset, data, ViewZero(view))
           ELSE << >>)

\* MemFile::set_len.
ViewSetLen(t, view, len) ==
    ViewOp(t, "set_len", view,
           IF ViewTag(view) = "Mutable"
           THEN SetLenBuf(bufs[ViewBuf(view)], len, ViewZero(view))
           ELSE << >>)

\* A conversion to usize that never fails.
FitsAlways(n) == TRUE
\* usize::try_from(n) of a u64: fails when n is above usize::MAX.
FitsUsize(n) == n <= UsizeMax

\* A registration that keeps only the new entry.
RegisterPartialAlone(hash, entry) == [x \in {hash} |-> entry]
\* What get_or_create_partial does to the partial map.
RegisterPartial(hash, entry) == MapInsert(partial, hash, entry)

\* Store::validate: not implemented, answers an error.
Validate(t) ==
    /\ Idle(t)
    /\ ret' = [ret EXCEPT ![t] = "NotImplemented"]
    /\ UNCHANGED <<storeVars, pc, readVars, tlsVars, importVars, exportVars>>

GetOrCreatePartial(t, hash, size) ==
    /\ Idle(t)
    /\ Len(allocs) < MaxAllocs
    /\ IF FitsUsize(OutboardSize(size)) /\ FitsUsize(size)
       THEN /\ CanWrite
            /\ LET i == Len(allocs) + 1
               IN  /\ allocs' = Append(allocs, [hash |-> hash, tree |-> BaoTreeNew(size)])
                   /\ bufs' = [bufs EXCEPT ![DataBuf(i)] = WithCapacity(size),
                                           ![ObBuf(i)] = WithCapacity(OutboardSize(size))]
                   /\ partial' = RegisterPartial(hash,
                                    [data |-> DataBuf(i), root |-> hash,
                                     tree |-> BaoTreeNew(size), ob |-> ObBuf(i)])
            /\ ret' = ret
       ELSE /\ ret' = [ret EXCEPT ![t] = "DataTooLarge"]
            /\ UNCHANGED <<allocs, bufs, partial>>
    /\ UNCHANGED <<complete, pc, ic, lastGet>>
    /\ UNCHANGED <<readVars, tlsVars, importVars, exportVars>>

\* write_at through a clone of the i-th handle's data writer.
WriteData(t, i, offset, data) ==
    /\ Idle(t)
    /\ i \in 1..Len(allocs)
    /\ offset + Len(data) <= MaxLen
    /\ bufs' = [bufs EXCEPT ![DataBuf(i)] = WriteAtBuf(@, offset, data, 0)]
    /\ UNCHANGED <<complete, partial, allocs, pc, ic, lastGet>>
    /\ UNCHANGED <<ret, readVars, tlsVars, importVars, exportVars>>

\* write_at through a clone of the i-th handle's outboard_mut().data.
WriteOutboard(t, i, cells) ==
    /\ Idle(t)
    /\ i \in 1..Len(allocs)
    /\ bufs' = [bufs EXCEPT ![ObBuf(i)] = WriteAtBuf(@, 0, cells, ZeroCell)]
    /\ UNCHANGED <<complete, partial, allocs, pc, ic, lastGet>>
    /\ UNCHANGED <<ret, readVars, tlsVars, importVars, exportVars>>

NoIc == [entry |-> 0, data |-> << >>, ob |-> << >>]

\* insert_complete, `let data = entry.data.freeze()`.
InsertCompleteFreezeData(t, i) ==
    /\ Idle(t)
    /\ i \in 1..Len(allocs)
    /\ ic' = [ic EXCEPT ![t] = [entry |-> i, data |-> FreezeReturns(bufs[DataBuf(i)]),
                                ob |-> << >>]]
    /\ bufs' = [bufs EXCEPT ![DataBuf(i)] = FreezeLeaves(@)]
    /\ pc' = [pc EXCEPT ![t] = "ic_freeze_outboard"]
    /\ UNCHANGED <<complete, partial, allocs, lastGet>>
    /\ UNCHANGED <<ret, readVars, tlsVars, importVars, exportVars>>

\* insert_complete, `let outboard = entry.outboard.data.freeze()`.
InsertCompleteFreezeOutboard(t) ==
    /\ pc[t] = "ic_freeze_outboard"
    /\ LET i == ic[t].entry
       IN  /\ ic' = [ic EXCEPT ![t].ob = FreezeReturns(bufs[ObBuf(i)])]
           /\ bufs' = [bufs EXCEPT ![ObBuf(i)] = FreezeLeaves(@)]
    /\ pc' = [pc EXCEPT ![t] = "ic_insert"]
    /\ UNCHANGED <<complete, partial, allocs, lastGet>>
    /\ UNCHANGED <<ret, readVars, tlsVars, importVars, exportVars>>

\* A write section that forgets `state.partial.remove(&hash)`.
PromotePartialKept(hash) == partial
\* What the write section of insert_complete does to the two maps.
PromotePartial(hash) == MapRemove(partial, hash)
\* A write section that forgets `state.complete.insert(hash, ..)`.
PromoteCompleteSkipped(hash, value) == complete
PromoteComplete(hash, value) == MapInsert(complete, hash, value)

\* insert_complete, the section under `self.0.state.write()`.
InsertCompleteInsert(t) ==
    /\ pc[t] = "ic_insert"
    /\ CanWrite
    /\ LET entry == PartialEntryOf(ic[t].entry)
       IN  /\ partial' = PromotePartial(entry.hash)
           /\ complete' = PromoteComplete(entry.hash,
                             [data |-> ic[t].data, root |-> entry.root,
                              tree |-> entry.tree, ob |-> ic[t].ob])
    /\ ic' = [ic EXCEPT ![t] = NoIc]
    /\ pc' = [pc EXCEPT ![t] = "idle"]
    /\ UNCHANGED <<bufs, allocs, lastGet>>
    /\ UNCHANGED <<ret, readVars, tlsVars, importVars, exportVars>>


\* ---------------------------------------------------------------------- tls
\* iroh-net/src/tls/verifier.rs.  A presented certificate is described by what
\* certificate::parse makes of it: whether it parses, and the peer id of the
\* parsed certificate.
PeerIds == {1, 2}
\* remote_peer_id: None.
NoPeer == 0
Certs == [parses : BOOLEAN, peer : PeerIds]

RECURSIVE SeqsUpTo(_, _)
SeqsUpTo(S, n) ==
    IF n = 0 THEN {<< >>}
    ELSE SeqsUpTo(S, n - 1) \cup
         {Append(q, x) : q \in {r \in SeqsUpTo(S, n - 1) : Len(r) = n - 1}, x \in S}

\* The chains of intermediates a peer may present.
Chains == SeqsUpTo(Certs, MaxIntermediates)

VerifyOk(peer) == [ok |-> TRUE, peer |-> peer, error |-> "none"]
VerifyErr(error) == [ok |-> FALSE, peer |-> NoPeer, error |-> error]

\* A verify_presented_certs that does not look at the intermediates.
VerifyPresentedCertsLenient(endEntity, intermediates) ==
    IF ~endEntity.parses THEN VerifyErr("InvalidCertificate")
    ELSE VerifyOk(endEntity.peer)
\* verify_presented_certs.
VerifyPresentedCerts(endEntity, intermediates) ==
    IF Len(intermediates) # 0 THEN VerifyErr("General")
    ELSE IF ~endEntity.parses THEN VerifyErr("InvalidCertificate")
    ELSE VerifyOk(endEntity.peer)

\* ServerCertVerifier::verify_server_cert, for a verifier configured with
\* remote_peer_id = remote.
VerifyServerCert(remote, endEntity, intermediates) ==
    IF ~VerifyPresentedCerts(endEntity, intermediates).ok
    THEN VerifyPresentedCerts(endEntity, intermediates).error
    ELSE IF remote # NoPeer /\ remote # VerifyPresentedCerts(endEntity, intermediates).peer
    THEN "PeerMisbehaved"
    ELSE "Ok"

\* ClientCertVerifier::verify_client_cert.
VerifyClientCert(remote, endEntity, intermediates) ==
    IF ~VerifyPresentedCerts(endEntity, intermediates).ok
    THEN VerifyPresentedCerts(endEntity, intermediates).error
    ELSE "Ok"

NoTls ==
    [role |-> "none", remote |-> NoPeer, endEntity |-> [parses |-> FALSE, peer |-> 1],
     intermediates |-> << >>, result |-> "none"]

\* One verification of a server's chain by a client-side verifier.
VerifyServer(remote, endEntity, intermediates) ==
    /\ tls' = [role |-> "server", remote |-> remote, endEntity |-> endEntity,
               intermediates |-> intermediates,
               result |-> VerifyServerCert(remote, endEntity, intermediates)]
    /\ UNCHANGED <<storeVars, pc, ret, readVars, importVars, exportVars>>

\* One verification of a client's chain by a server-side verifier.
VerifyClient(remote, endEntity, intermediates) ==
    /\ tls' = [role |-> "client", remote |-> remote, endEntity |-> endEntity,
               intermediates |-> intermediates,
               result |-> VerifyClientCert(remote, endEntity, intermediates)]
    /\ UNCHANGED <<storeVars, pc, ret, readVars, importVars, exportVars>>

\* ------------------------------------------------------------------- import
NoImp == [bytes |-> << >>, sender |-> "none", id |-> 0, hash |-> 0, ob |-> << >>]

\* IdGenerator::new_id: the channel sender draws fresh ids; the
\* IgnoreProgressSender of import_bytes always answers 0.
NewId(sender) == IF sender = "ignore" THEN 0 ELSE nextId
AfterNewId(sender) == IF sender = "ignore" THEN nextId ELSE nextId + 1

Msg(kind, id) == [kind |-> kind, id |-> id]

\* Store::import up to the call of import_bytes_sync.  `sent` is how many of
\* Found, CopyProgress, Size go through before a send or the read fails.
ImportOutcomes == {"found_fails", "copy_fails", "read_fails", "size_fails", "ok"}

\* An import that reports the size before the copy progress.
ImportMsgsSizeFirst(id, outcome, size) ==
    CASE outcome = "found_fails" -> << >>
      [] outcome = "copy_fails" -> << Msg("Found", id) >>
      [] outcome = "read_fails" -> << Msg("Found", id), Msg("Size", id) >>
      [] outcome = "size_fails" -> << Msg("Found", id), Msg("Size", id) >>
      [] OTHER -> << Msg("Found", id), Msg("Size", id), Msg("CopyProgress", id) >>
ImportMsgs(id, outcome, size) ==
    CASE outcome = "found_fails" -> << >>
      [] outcome = "copy_fails" -> << Msg("Found", id) >>
      [] outcome = "read_fails" -> << Msg("Found", id), Msg("CopyProgress", id) >>
      [] outcome = "size_fails" -> << Msg("Found", id), Msg("CopyProgress", id) >>
      [] OTHER -> << Msg("Found", id), Msg("CopyProgress", id), Msg("Size", id) >>

Import(t, bytes, outcome) ==
    /\ Idle(t)
    /\ nextId + 2 <= MaxIds
    /\ LET id == NewId("chan")
       IN  /\ nextId' = AfterNewId("chan")
           /\ msgs' = [msgs EXCEPT ![t] = ImportMsgs(id, outcome, Len(bytes))]
           /\ IF outcome = "ok"
              THEN /\ imp' = [imp EXCEPT ![t] = [bytes |-> bytes, sender |-> "chan",
                                                 id |-> id, hash |-> 0,
                                                 ob |-> << >>]]
                   /\ pc' = [pc EXCEPT ![t] = "ibs"]
                   /\ ret' = ret
              ELSE /\ imp' = [imp EXCEPT ![t] = NoImp]
                   /\ pc' = pc
                   /\ ret' = [ret EXCEPT ![t] =
                                 IF outcome = "read_fails" THEN "Io" ELSE "SendError"]
    /\ UNCHANGED <<storeVars, readVars, tlsVars, exportVars>>

\* import_bytes_sync up to the write section: new_id, OutboardProgress,
\* the outboard computation, OutboardDone.  A send of the channel sender may
\* fail; the IgnoreProgressSender of import_bytes sends nothing and never fails.
HashOutcomes(sender) ==
    IF sender = "ignore" THEN {"ok"} ELSE {"progress_fails", "done_fails", "ok"}

HashMsgs(id, outcome) ==
    CASE outcome = "progress_fails" -> << >>
      [] outcome = "done_fails" -> << Msg("OutboardProgress", id) >>
      [] OTHER -> << Msg("OutboardProgress", id), Msg("OutboardDone", id) >>

ImportBytesSyncHashed(t, bytes, sender, callerId, sentSoFar, outcome) ==
    /\ outcome \in HashOutcomes(sender)
    /\ nextId' = AfterNewId(sender)
    /\ msgs' = [msgs EXCEPT ![t] =
                   IF sender = "ignore" THEN << >>
                   ELSE sentSoFar \o HashMsgs(NewId(sender), outcome)]
    /\ IF outcome = "ok"
       THEN /\ imp' = [imp EXCEPT ![t] = [bytes |-> bytes, sender |-> sender,
                                          id |-> callerId,
                                          hash |-> TreeHash(bytes),
                                          ob |-> OutboardOf(bytes)]]
            /\ pc' = [pc EXCEPT ![t] = "ibs_insert"]
            /\ ret' = ret
       ELSE /\ imp' = [imp EXCEPT ![t] = NoImp]
            /\ pc' = [pc EXCEPT ![t] = "idle"]
            /\ ret' = [ret EXCEPT ![t] = "SendError"]

\* Store::import_bytes: import_bytes_sync with the IgnoreProgressSender, up to
\* its write section.
ImportBytes(t, bytes) ==
    /\ Idle(t)
    /\ ImportBytesSyncHashed(t, bytes, "ignore", 0, << >>, "ok")
    /\ UNCHANGED <<storeVars, readVars, tlsVars, exportVars>>

\* Store::import, continued: import_bytes_sync(bytes, progress) up to its
\* write section.
ImportBytesSyncHash(t, outcome) ==
    /\ pc[t] = "ibs"
    /\ ImportBytesSyncHashed(t, imp[t].bytes, imp[t].sender, imp[t].id, msgs[t], outcome)
    /\ UNCHANGED <<storeVars, readVars, tlsVars, exportVars>>

\* What the write section of import_bytes_sync does to the complete map.
ImportInsert(hash, value) == MapInsert(complete, hash, value)

\* import_bytes_sync, the section under `self.0.state.write()`.
ImportBytesSyncInsert(t) ==
    /\ pc[t] = "ibs_insert"
    /\ CanWrite
    /\ complete' = ImportInsert(imp[t].hash,
                      [data |-> imp[t].bytes, root |-> imp[t].hash,
                       tree |-> BaoTreeNew(Len(imp[t].bytes)), ob |-> imp[t].ob])
    /\ imp' = [imp EXCEPT ![t] = NoImp]
    /\ pc' = [pc EXCEPT ![t] = "idle"]
    /\ ret' = [ret EXCEPT ![t] = "Ok"]
    /\ UNCHANGED <<partial, bufs, allocs, ic, lastGet, nextId, msgs, exportVars>>
    /\ UNCHANGED <<readVars, tlsVars>>


\* ------------------------------------------------------------------- export
\* A path: absolute or not, and its components.
Path(abs, comps) == [abs |-> abs, comps |-> comps]
RootDir == Path(TRUE, << >>)
Targets == {Path(FALSE, <<"out">>), RootDir, Path(TRUE, <<"d", "out">>)}

\* Path::is_absolute.
IsAbsolute(p) == p.abs
\* Path::parent: None for a path without components.
HasParent(p) == Len(p.comps) > 0
Parent(p) == Path(p.abs, Take(p.comps, Len(p.comps) - 1))
\* std::fs::create_dir_all: the directory and every missing ancestor.
CreateDirAll(d) == dirs \cup {Path(d.abs, Take(d.comps, n)) : n \in 0..Len(d.comps)}

NoEx == [hash |-> 0, target |-> RootDir, offset |-> 0, calls |-> << >>]

\* The content export_sync streams: the `data` borrowed from the complete map
\* under the read guard.
ExportData(t) == complete[ex[t].hash].data

\* export_sync from its start to `File::create(target)`.  mkdirOk and
\* createOk are the outcomes of the two file-system calls.  ex[t] keeps the
\* arguments of the call.
ExportBegin(t, hash, target, mkdirOk, createOk) ==
    /\ Idle(t)
    /\ ex' = [ex EXCEPT ![t] = [hash |-> hash, target |-> target,
                                offset |-> 0, calls |-> << >>]]
    /\ IF ~IsAbsolute(target) \/ ~HasParent(target)
       THEN /\ ret' = [ret EXCEPT ![t] = "InvalidInput"]
            /\ UNCHANGED <<pc, readers, dirs, files>>
       ELSE IF ~mkdirOk
       THEN /\ ret' = [ret EXCEPT ![t] = "Io"]
            /\ UNCHANGED <<pc, readers, dirs, files>>
       ELSE /\ dirs' = CreateDirAll(Parent(target))
            /\ IF ~Has(complete, hash)
               THEN /\ ret' = [ret EXCEPT ![t] = "NotFound"]
                    /\ UNCHANGED <<pc, readers, files>>
               ELSE IF ~createOk
               THEN /\ ret' = [ret EXCEPT ![t] = "Io"]
                    /\ UNCHANGED <<pc, readers, files>>
               ELSE /\ files' = MapInsert(files, target, << >>)
                    /\ readers' = readers \cup {t}
                    /\ pc' = [pc EXCEPT ![t] = "ex_write"]
                    /\ ret' = [ret EXCEPT ![t] = "running"]
    /\ UNCHANGED <<storeVars, readVars, tlsVars, importVars>>

\* A progress call that reports the bytes written after the chunk.
ProgressArgAfter(t) == ex[t].offset + ChunkSize
\* `progress(offset)`: the bytes written so far.
ProgressArg(t) == ex[t].offset

\* One round of `for chunk in data.chunks(1024 * 1024)`: progress(offset),
\* write_all(chunk), offset += chunk.len().
ExportChunk(t, progressOk, writeOk) ==
    /\ pc[t] = "ex_write"
    /\ ex[t].offset < Len(ExportData(t))
    /\ LET chunk == Take(Drop(ExportData(t), ex[t].offset), ChunkSize)
       IN  IF ~progressOk
           THEN /\ ret' = [ret EXCEPT ![t] = "ProgressError"]
                /\ pc' = [pc EXCEPT ![t] = "idle"]
                /\ readers' = readers \ {t}
                /\ ex' = [ex EXCEPT ![t].calls = Append(@, ProgressArg(t))]
                /\ files' = files
           ELSE IF ~writeOk
           THEN /\ ret' = [ret EXCEPT ![t] = "Io"]
                /\ pc' = [pc EXCEPT ![t] = "idle"]
                /\ readers' = readers \ {t}
                /\ ex' = [ex EXCEPT ![t].calls = Append(@, ProgressArg(t))]
                /\ files' = files
           ELSE /\ files' = [files EXCEPT ![ex[t].target] =
                                  WriteAtBuf(@, ex[t].offset, chunk, 0)]
                /\ ex' = [ex EXCEPT ![t].calls = Append(@, ProgressArg(t)),
                                    ![t].offset = @ + Len(chunk)]
                /\ UNCHANGED <<ret, pc, readers>>
    /\ UNCHANGED <<storeVars, readVars, tlsVars, importVars, dirs>>

\* What `state.write()` does for caller t.  std's RwLock::write "might panic
\* when called if the lock is already held by the current thread": a caller
\* that holds a read guard itself either panics or waits for ever; any other
\* caller gets the lock once no read guard is held.
WriteLockOutcomes(t) == IF t \in readers THEN {"panic", "block"} ELSE {"acquire"}

\* One round of the chunk loop whose progress callback calls a Store
\* operation that takes the write lock (get_or_create_partial, say) on the
\* thread of the export, which still holds the read guard of export_sync.
ExportChunkReentrant(t, outcome) ==
    /\ pc[t] = "ex_write"
    /\ ex[t].offset < Len(ExportData(t))
    /\ outcome \in WriteLockOutcomes(t)
    /\ ex' = [ex EXCEPT ![t].calls = Append(@, ProgressArg(t))]
    /\ CASE outcome = "panic" ->
              /\ ret' = [ret EXCEPT ![t] = "Panicked"]
              /\ pc' = [pc EXCEPT ![t] = "idle"]
              /\ readers' = readers \ {t}
         [] outcome = "block" ->
              /\ pc' = [pc EXCEPT ![t] = "ex_write_lock_wait"]
              /\ UNCHANGED <<ret, readers>>
         [] OTHER ->
              UNCHANGED <<ret, pc, readers>>
    /\ UNCHANGED <<storeVars, readVars, tlsVars, importVars, dirs, files>>

\* export_sync after the loop: flush, drop(file), Ok(()); the read guard goes.
ExportEnd(t) ==
    /\ pc[t] = "ex_write"
    /\ ex[t].offset >= Len(ExportData(t))
    /\ ret' = [ret EXCEPT ![t] = "Ok"]
    /\ pc' = [pc EXCEPT ![t] = "idle"]
    /\ readers' = readers \ {t}
    /\ UNCHANGED <<storeVars, readVars, tlsVars, importVars, ex, dirs, files>>

\* ------------------------------------------------------------ specifications
Init ==
    /\ complete = EmptyMap
    /\ partial = EmptyMap
    /\ bufs = [b \in BufIds |-> << >>]
    /\ allocs = << >>
    /\ pc = [t \in Threads |-> "idle"]
    /\ ic = [t \in Threads |-> NoIc]
    /\ lastGet = NoEntry
    /\ ret = [t \in Threads |-> "none"]
    /\ imp = [t \in Threads |-> NoImp]
    /\ nextId = 0
    /\ msgs = [t \in Threads |-> << >>]
    /\ ex = [t \in Threads |-> NoEx]
    /\ readers = {}
    /\ dirs = {RootDir}
    /\ files = EmptyMap
    /\ listing = NoListing
    /\ call = NoCall
    /\ viewRet = NoViewRet
    /\ tls = NoTls

\* The hashes callers ask for: those of the inputs, and one of no content.
Hashes == InputHashes \cup {0}

\* One step of a caller of the partial-entry interface: allocation, or a
\* write or the promotion through one of the handles.
AllocStep(t) == GetOrCreatePartial(t, TreeHash(Ones(MaxLen)), MaxLen)

WriteStep(t) ==
    \/ \E i \in 1..MaxAllocs : WriteData(t, i, 0, Ones(allocs[i].tree))
    \/ \E i \in 1..MaxAllocs : WriteData(t, i, allocs[i].tree - 1, <<1>>)
    \/ \E i \in 1..MaxAllocs : WriteOutboard(t, i, OutboardOf(Ones(allocs[i].tree)))

PromoteStep(t) ==
    \/ \E i \in 1..MaxAllocs : InsertCompleteFreezeData(t, i)
    \/ InsertCompleteFreezeOutboard(t)
    \/ InsertCompleteInsert(t)

HandleStep(t) == WriteStep(t) \/ PromoteStep(t)

PartialStep(t) == AllocStep(t) \/ HandleStep(t)

ImportBytesStep(t) ==
    \/ \E b \in Inputs : ImportBytes(t, b)
    \/ ImportBytesSyncInsert(t)

\* The hashes the reading caller looks up.
ReadHashes == {TreeHash(Ones(MaxLen)), 0}

ReadStep(t) ==
    \/ \E h \in ReadHashes : Get(t, h)
    \/ \E h \in ReadHashes : GetPartial(t, h)

\* The store under concurrent writers.
Next == \E t \in Threads : PartialStep(t) \/ ImportBytesStep(t)

Spec == Init /\ [][Next]_vars

\* The store with one writing and one reading caller.
Writer == "t1"
Reader == "t2"
NextRead == PartialStep(Writer) \/ ImportBytesStep(Writer) \/ ReadStep(Reader)

SpecRead == Init /\ [][NextRead]_vars

\* Store::import with a channel progress sender, by any caller.
ImportStep(t) ==
    \/ \E b \in Inputs, o \in ImportOutcomes : Import(t, b, o)
    \/ \E o \in HashOutcomes("chan") : ImportBytesSyncHash(t, o)
    \/ ImportBytesSyncInsert(t)

NextImport == \E t \in Threads : ImportStep(t)

SpecImport == Init /\ [][NextImport]_vars

\* Store::export by one caller, while the other caller imports, allocates
\* one partial entry, writes and promotes.
Exporter == "t2"
ExportHashes == {TreeHash(Ones(MaxLen)), 0}

ExportStep(t) ==
    \/ \E h \in ExportHashes, p \in Targets, mkdirOk \in BOOLEAN, createOk \in BOOLEAN :
          ExportBegin(t, h, p, mkdirOk, createOk)
    \/ \E progressOk \in BOOLEAN, writeOk \in BOOLEAN : ExportChunk(t, progressOk, writeOk)
    \/ ExportEnd(t)

NextExport ==
    \/ ExportStep(Exporter)
    \/ ImportBytesStep(Writer)
    \/ (allocs = << >> /\ AllocStep(Writer))
    \/ HandleStep(Writer)

SpecExport == Init /\ [][NextExport]_vars

\* Store::export whose progress callback may call back into the Store, with
\* a second caller that imports, allocates and promotes; every caller that
\* can take a step eventually takes one, and a caller waiting for the write
\* lock gets it if the lock is free again and again.
ReentrantExportStep(t) ==
    \/ \E createOk \in BOOLEAN : ExportBegin(t, TargetHash, Path(TRUE, <<"d", "out">>), TRUE, createOk)
    \/ \E progressOk \in BOOLEAN, writeOk \in BOOLEAN : ExportChunk(t, progressOk, writeOk)
    \/ \E o \in {"panic", "block", "acquire"} : ExportChunkReentrant(t, o)
    \/ ExportEnd(t)

WriterStep(t) ==
    \/ ImportBytesStep(t)
    \/ (allocs = << >> /\ AllocStep(t))
    \/ PromoteStep(t)

NextLive == ReentrantExportStep(Exporter) \/ WriterStep(Writer)

SpecLive ==
    /\ Init
    /\ [][NextLive]_vars
    /\ WF_vars(ExportChunk(Exporter, TRUE, TRUE))
    /\ WF_vars(ExportEnd(Exporter))
    /\ SF_vars(WriterStep(Writer))

\* get_or_create_partial with sizes on both sides of usize::MAX, with the
\* writes and promotions through the handles.
AllocSizes == {MaxLen, UsizeMax + 1}

SizedAllocStep(t) == \E size \in AllocSizes : GetOrCreatePartial(t, TargetHash, size)

NextAlloc == \E t \in Threads : SizedAllocStep(t) \/ HandleStep(t)

SpecAlloc == Init /\ [][NextAlloc]_vars

\* The certificate verifier, with every configuration and every chain.
NextTls ==
    \/ \E r \in PeerIds \cup {NoPeer}, c \in Certs, i \in Chains : VerifyServer(r, c, i)
    \/ \E r \in PeerIds \cup {NoPeer}, c \in Certs, i \in Chains : VerifyClient(r, c, i)

SpecTls == Init /\ [][NextTls]_vars

\* Two callers holding clones of the handle of one partial entry: each may
\* write through it and promote it.
NextHandles == \E t \in Threads : (allocs = << >> /\ AllocStep(t)) \/ HandleStep(t)

SpecHandles == Init /\ [][NextHandles]_vars

\* One caller that allocates partial entries for the hashes of the inputs,
\* writes the content of the first, promotes them and imports, and one caller
\* that runs the reading operations.
FrameAllocStep(t) == \E b \in Inputs : GetOrCreatePartial(t, TreeHash(b), Len(b))

FrameReadStep(t) ==
    \/ Get(t, TargetHash)
    \/ GetPartial(t, TargetHash)
    \/ Blobs(t)
    \/ PartialBlobs(t)
    \/ Validate(t)
    \/ ExportBegin(t, TargetHash, Path(TRUE, <<"d", "out">>), TRUE, TRUE)
    \/ ExportChunk(t, TRUE, TRUE)
    \/ ExportEnd(t)

NextFrame ==
    \/ FrameAllocStep(Writer)
    \/ WriteData(Writer, 1, 0, Ones(allocs[1].tree))
    \/ PromoteStep(Writer)
    \/ ImportBytesStep(Writer)
    \/ FrameReadStep(Reader)

SpecFrame == Init /\ [][NextFrame]_vars

\* The store with one writing caller and one caller that lists the hashes.
ListStep(t) == Blobs(t) \/ PartialBlobs(t)

NextList == PartialStep(Writer) \/ ImportBytesStep(Writer) \/ ListStep(Reader)

SpecList == Init /\ [][NextList]_vars

\* The store with one caller that allocates one partial entry, promotes it and
\* imports, and one caller that looks the hash up and writes through the
\* views of the entry it got.
Views == {"data", "outboard"}
ViewData(view) == IF view = "data" THEN << 1 >> ELSE << SizeCell(MaxLen) >>

ViewStep(t) ==
    \/ Get(t, TargetHash)
    \/ \E v \in Views : ViewWriteAt(t, v, 0, ViewData(v))
    \/ \E v \in Views : ViewWriteBytesAt(t, v, 0, ViewData(v))
    \/ \E v \in Views : ViewSetLen(t, v, 1)

NextView ==
    \/ (allocs = << >> /\ AllocStep(Writer))
    \/ PromoteStep(Writer)
    \/ ImportBytesStep(Writer)
    \/ ViewStep(Reader)

SpecView == Init /\ [][NextView]_vars

\* ------------------------------------------------------------------- claims

\* C1: no hash is a key of both the complete map and the partial map.
C1_Disjoint == \A h \in DOMAIN complete : h \notin DOMAIN partial

C3_CompleteImmutable ==
    [][\A h \in DOMAIN complete :
        /\ h \in DOMAIN complete'
        /\ complete'[h] = complete[h]
      ]_vars

\* C4: every complete entry is self-consistent: the tree over its content has
\* its key as root, its outboard as outboard and its tree size as length.
C4_SelfConsistent ==
    \A h \in DOMAIN complete :
        /\ TreeHash(complete[h].data) = h
        /\ complete[h].root = h
        /\ complete[h].ob = OutboardOf(complete[h].data)
        /\ complete[h].tree = Len(complete[h].data)

\* C5: a reader never gets, for a hash still in the partial map, a handle to a
\* buffer that a running insert_complete has already frozen.
C5_NoTornHandle ==
    lastGet.src = "partial" => ~lastGet.dataFrozen /\ ~lastGet.obFrozen

\* C6: round trip: when import_bytes(B) returns H, get(H) yields the complete
\* entry with immutable content B, size Len(B), and hash and root the tree
\* hash of B.
C6_RoundTrip ==
    [][\A t \in Threads, b \in Inputs :
        (pc[t] = "ibs_insert" /\ pc'[t] = "idle" /\ imp[t].bytes = b)
            => /\ ret'[t] = "Ok"
               /\ imp[t].hash = TreeHash(b)
               /\ (GetResult(TreeHash(b)))' =
                     [src |-> "complete", hash |-> TreeHash(b),
                      root |-> TreeHash(b), tree |-> Len(b),
                      dataTag |-> "Immutable", dataBytes |-> b, dataBuf |-> 0,
                      dataFrozen |-> FALSE,
                      obTag |-> "Immutable", obBytes |-> OutboardOf(b), obBuf |-> 0,
                      obFrozen |-> FALSE]
      ]_vars

\* C6 witness: import_bytes returned while the hash also had a partial entry,
\* and the reader then got the imported content.
C6_Witness ==
    /\ ret[Writer] = "Ok"
    /\ Has(partial, TargetHash)
    /\ lastGet.src = "complete"
    /\ lastGet.hash = TargetHash
    /\ lastGet.dataBytes = Ones(MaxLen)
    /\ lastGet.tree = MaxLen

\* C7 as claimed: right after get_or_create_partial(H, size) the content
\* buffer holds size zero bytes and the outboard buffer has the length
\* outboard_size(size).
C7_PreSized ==
    [][\A i \in 1..MaxAllocs :
        (Len(allocs) = i - 1 /\ Len(allocs') = i)
            => /\ bufs'[DataBuf(i)] = Fill(allocs'[i].tree, 0)
               /\ Len(bufs'[ObBuf(i)]) = OutboardSize(allocs'[i].tree)
      ]_vars

\* C7 as amended: right after get_or_create_partial(H, size) both buffers of
\* the returned entry are empty (length 0), the entry registered for H shares
\* those buffers, and its tree metadata carries size.
C7_EmptyAtCreation ==
    [][\A i \in 1..MaxAllocs :
        (Len(allocs) = i - 1 /\ Len(allocs') = i)
            => /\ bufs'[DataBuf(i)] = << >>
               /\ bufs'[ObBuf(i)] = << >>
               /\ Has(partial', allocs'[i].hash)
               /\ partial'[allocs'[i].hash] =
                     [data |-> DataBuf(i), root |-> allocs'[i].hash,
                      tree |-> allocs'[i].tree, ob |-> ObBuf(i)]
      ]_vars

\* C7 witness: a partial entry of size MaxLen was just created.
C7_Witness ==
    /\ Len(allocs) = 1
    /\ allocs[1].tree = MaxLen
    /\ Has(partial, allocs[1].hash)
    /\ bufs[DataBuf(1)] = << >>
    /\ bufs[ObBuf(1)] = << >>

\* C8: all progress messages of one import call carry the same id.
C8_SingleId ==
    \A t \in Threads :
        \A i \in 1..Len(msgs[t]), j \in 1..Len(msgs[t]) : msgs[t][i].id = msgs[t][j].id

\* C9: an export to a target that is not absolute fails with InvalidInput, an
\* export of a hash that is not complete to an absolute target fails with
\* NotFound, and neither creates a directory or a file.  (Read in the claim's
\* favour: a failing file-system call and the target "/" are left out of the
\* NotFound case.)
C9_FailingExportClean ==
    [][\A t \in Threads, h \in Hashes, p \in Targets :
        (pc[t] = "idle" /\ ex'[t] # ex[t] /\ ex'[t].hash = h /\ ex'[t].target = p)
            => /\ ~IsAbsolute(p) => ret'[t] = "InvalidInput"
               /\ (IsAbsolute(p) /\ HasParent(p) /\ ~Has(complete, h) /\ ret'[t] # "Io")
                     => ret'[t] = "NotFound"
               /\ (~IsAbsolute(p) \/ ~Has(complete, h))
                     => (dirs' = dirs /\ files' = files)
      ]_vars

\* C10: when an export of a complete hash returns Ok, the target file holds
\* exactly the content stored for that hash, and the target's parent
\* directories exist.
C10_ExportedBytes ==
    [][\A t \in Threads, h \in Hashes, p \in Targets :
        (pc[t] = "ex_write" /\ pc'[t] = "idle" /\ ret'[t] = "Ok"
            /\ ex[t].hash = h /\ ex[t].target = p)
            => /\ Has(complete', h)
               /\ Has(files', p)
               /\ files'[p] = complete'[h].data
               /\ complete'[h] = complete[h]
               /\ CreateDirAll(Parent(p)) = dirs'
      ]_vars

\* C10 witness: an export into a directory that did not exist returned Ok
\* with the full content written, while a promotion of the same hash waits
\* for the write lock.
C10_Witness ==
    /\ ret[Exporter] = "Ok"
    /\ pc[Exporter] = "idle"
    /\ Has(files, Path(TRUE, <<"d", "out">>))
    /\ files[Path(TRUE, <<"d", "out">>)] = Ones(MaxLen)
    /\ Path(TRUE, <<"d">>) \in dirs
    /\ pc[Writer] = "ic_insert"
    /\ ic[Writer].data # Ones(MaxLen)

\* C11: blobs() returns the keys of the complete map, and partial_blobs() the
\* keys of the partial map, as they are at the call; no import_bytes,
\* get_or_create_partial or insert_complete changes a sequence already
\* returned; blobs() lists no hash that is only partial.
C11_Snapshot ==
    [][ /\ (listing' # listing /\ listing'.op = "blobs")
            => /\ listing'.items = SortedSeq(DOMAIN complete)
               /\ \A k \in 1..Len(listing'.items) :
                     listing'.items[k] \in DOMAIN complete
        /\ (listing' # listing /\ listing'.op = "partial_blobs")
            => listing'.items = SortedSeq(DOMAIN partial)
        /\ (complete' # complete \/ partial' # partial \/ bufs' # bufs \/ pc' # pc)
            => listing' = listing
      ]_vars

\* C11 witness: a blobs() sequence taken while the hash was only partial and
\* another hash was complete; the hash has since been imported and the
\* sequence still yields what it yielded.
C11_Witness ==
    /\ listing.op = "blobs"
    /\ listing.items = << TreeHash(Ones(1)) >>
    /\ Has(complete, TargetHash)
    /\ Has(partial, TargetHash)

\* C12: write_at, write_bytes_at and set_len through a view of a complete
\* entry (an Immutable MemFile) answer an error and change neither the stored
\* bytes nor their length; through a Mutable view they succeed.
C12_ReadOnlyViews ==
    [][ viewRet' # viewRet =>
          /\ lastGet.src = "complete" => viewRet'.tag = "Immutable"
          /\ lastGet.src = "partial" => viewRet'.tag = "Mutable"
          /\ viewRet'.tag = "Immutable"
                => /\ viewRet'.result = "Err"
                   /\ complete' = complete
                   /\ lastGet' = lastGet
                   /\ bufs' = bufs
          /\ viewRet'.tag = "Mutable" => viewRet'.result = "Ok"
      ]_vars

\* C12 witness: a set_len through the data view of the complete entry of the
\* hash answered an error, and the entry still has its content.
C12_Witness ==
    /\ viewRet.op = "set_len"
    /\ viewRet.view = "data"
    /\ viewRet.result = "Err"
    /\ lastGet.src = "complete"
    /\ lastGet.dataBytes = Ones(MaxLen)
    /\ complete[TargetHash].data = Ones(MaxLen)

\* C13: the lock on the two maps is held for the map lookup or mutation only:
\* no caller holds it between two steps of an operation, that is across a
\* file-system call, the hashing or a progress callback, so a writer never
\* waits for an export's chunk loop.
C13_LockOnlyForMaps ==
    \A t \in Threads : pc[t] # "idle" => t \notin readers

\* C14: no operation blocks for ever: every operation a caller has started
\* eventually completes, also an export whose progress callback calls a Store
\* operation that needs the write lock.
C14_NoBlocking ==
    \A t \in Threads : (pc[t] # "idle") ~> (pc[t] = "idle")

\* C15: get(H) answers the complete entry with immutable views when H is in
\* the complete map, else the partial entry with mutable views when H is in
\* the partial map, else nothing; get_partial(H) answers an entry exactly
\* when H is in the partial map; neither changes the store.
C15_Lookup ==
    [][ \A h \in Hashes :
          ((lastGet' # lastGet \/ call' # call) /\ call'.hash = h) =>
            /\ UNCHANGED <<complete, partial, bufs, allocs, pc, ic>>
            /\ call'.op \in {"get", "get_partial"}
            /\ (call'.op = "get" /\ Has(complete, h))
                  => /\ lastGet'.src = "complete"
                     /\ lastGet'.dataTag = "Immutable"
                     /\ lastGet'.obTag = "Immutable"
                     /\ lastGet'.dataBytes = complete[h].data
                     /\ lastGet'.obBytes = complete[h].ob
                     /\ lastGet'.tree = complete[h].tree
            /\ (call'.op = "get" /\ ~Has(complete, h) /\ Has(partial, h))
                  => /\ lastGet'.src = "partial"
                     /\ lastGet'.dataTag = "Mutable"
                     /\ lastGet'.obTag = "Mutable"
                     /\ lastGet'.dataBuf = partial[h].data
                     /\ lastGet'.obBuf = partial[h].ob
                     /\ lastGet'.tree = partial[h].tree
            /\ (call'.op = "get" /\ ~Has(complete, h) /\ ~Has(partial, h))
                  => lastGet' = NoEntry
            /\ (call'.op = "get_partial" /\ Has(partial, h))
                  => /\ lastGet'.src = "partial"
                     /\ lastGet'.dataBuf = partial[h].data
                     /\ lastGet'.obBuf = partial[h].ob
                     /\ lastGet'.tree = partial[h].tree
            /\ (call'.op = "get_partial" /\ ~Has(partial, h))
                  => lastGet' = NoEntry
      ]_vars

\* C15 witness: get_partial of a hash that is complete and not partial
\* answered nothing.
C15_Witness ==
    /\ call = [op |-> "get_partial", hash |-> TargetHash]
    /\ lastGet = NoEntry
    /\ Has(complete, TargetHash)
    /\ ~Has(partial, TargetHash)

\* C16: size() and hash() come from the tree metadata fixed at creation, so
\* an entry served from the complete map never has a data buffer shorter
\* than its size().
C16_NoShortComplete ==
    \A h \in DOMAIN complete : Len(complete[h].data) >= complete[h].tree

\* C17: get_or_create_partial(H, size) for an H that already has a partial
\* entry replaces it with fresh buffers: the entry of H then has the buffers
\* of the new handle, which no earlier handle has, get(H) and get_partial(H)
\* show none of the bytes written before, and a write through an earlier
\* handle leaves the buffers of the entry as they are.
C17_Replaces ==
    [][ /\ \A i \in 2..MaxAllocs, h \in Hashes :
              (Len(allocs) = i - 1 /\ Len(allocs') = i /\ allocs'[i].hash = h
                 /\ Has(partial, h))
                => /\ partial'[h].data = DataBuf(i)
                   /\ partial'[h].ob = ObBuf(i)
                   /\ \A j \in 1..(i - 1) :
                         {DataBuf(j), ObBuf(j)} \cap {DataBuf(i), ObBuf(i)} = {}
                   /\ (GetPartialResult(h))'.dataBuf = DataBuf(i)
                   /\ (GetPartialResult(h))'.obBuf = ObBuf(i)
                   /\ bufs'[DataBuf(i)] = << >>
                   /\ bufs'[ObBuf(i)] = << >>
                   /\ \A j \in 1..(i - 1) : bufs'[DataBuf(j)] = bufs[DataBuf(j)]
        /\ \A h \in DOMAIN partial, j \in 1..Len(allocs) :
              (allocs' = allocs /\ partial[h].data # DataBuf(j)
                 /\ bufs'[DataBuf(j)] # bufs[DataBuf(j)])
                => /\ bufs'[partial[h].data] = bufs[partial[h].data]
                   /\ partial' = partial
      ]_vars

\* C17 witness: the hash was allocated twice, the first handle's buffer holds
\* the content written through it, the entry of the hash has the second
\* handle's buffer, which is empty, and get_partial answered that buffer.
C17_Witness ==
    /\ Len(allocs) = 2
    /\ bufs[DataBuf(1)] = Ones(MaxLen)
    /\ Has(partial, TargetHash)
    /\ partial[TargetHash].data = DataBuf(2)
    /\ bufs[DataBuf(2)] = << >>
    /\ call = [op |-> "get_partial", hash |-> TargetHash]
    /\ lastGet.dataBuf = DataBuf(2)

\* C18: get_or_create_partial(H, size) answers the data-too-large error when
\* size or the outboard size does not fit an in-memory length, never creates
\* an entry of such a size, and a call that answers the error leaves both
\* maps, the buffers and the handles as they were.
C18_DataTooLarge ==
    [][ /\ \A i \in 1..MaxAllocs :
              (Len(allocs) = i - 1 /\ Len(allocs') = i)
                => /\ allocs'[i].tree <= UsizeMax
                   /\ OutboardSize(allocs'[i].tree) <= UsizeMax
                   /\ ret' = ret
        /\ \A h \in DOMAIN partial' : partial'[h].tree <= UsizeMax
        /\ \A t \in Threads :
              (ret'[t] = "DataTooLarge" /\ ret[t] # "DataTooLarge")
                => UNCHANGED <<complete, partial, bufs, allocs>>
      ]_vars

\* C18 witness: a call with a size above usize::MAX answered the error while
\* the hash had a partial entry with written content, which is still there.
C18_Witness ==
    /\ ret["t1"] = "DataTooLarge"
    /\ Len(allocs) = 1
    /\ Has(partial, TargetHash)
    /\ partial[TargetHash].data = DataBuf(1)
    /\ bufs[DataBuf(1)] = Ones(MaxLen)

\* C19: verify_server_cert and verify_client_cert answer an error whenever
\* an intermediate certificate is presented or the end-entity certificate
\* does not parse; verify_server_cert also answers an error whenever an
\* expected peer id is configured and differs from the certificate's peer
\* id; each answers success exactly when none of its conditions holds.
C19_SingleBoundCert ==
    tls.role # "none" =>
      /\ Len(tls.intermediates) > 0 => tls.result \notin {"Ok", "none"}
      /\ ~tls.endEntity.parses => tls.result \notin {"Ok", "none"}
      /\ (tls.role = "server" /\ tls.remote # NoPeer /\ tls.remote # tls.endEntity.peer)
            => tls.result \notin {"Ok", "none"}
      /\ tls.result = "Ok" <=>
            /\ Len(tls.intermediates) = 0
            /\ tls.endEntity.parses
            /\ (tls.role = "server" /\ tls.remote # NoPeer)
                  => tls.remote = tls.endEntity.peer

\* C19 witness: a server presented a single certificate that parses, for a
\* peer id other than the expected one, and was rejected.
C19_Witness ==
    /\ tls.role = "server"
    /\ tls.remote = 1
    /\ tls.endEntity = [parses |-> TRUE, peer |-> 2]
    /\ tls.intermediates = << >>
    /\ tls.result = "PeerMisbehaved"

\* C20: freeze returns exactly the bytes the buffer held and leaves the
\* shared container empty, so every clone then reads length 0; a write
\* through a clone changes neither bytes already frozen nor a complete entry.
C20_FreezeSwaps ==
    [][ /\ \A t \in Threads, i \in 1..MaxAllocs :
              (pc[t] = "idle" /\ pc'[t] = "ic_freeze_outboard" /\ ic'[t].entry = i)
                => /\ ic'[t].data = bufs[DataBuf(i)]
                   /\ bufs'[DataBuf(i)] = << >>
        /\ \A t \in Threads, i \in 1..MaxAllocs :
              (pc[t] = "ic_freeze_outboard" /\ pc'[t] = "ic_insert" /\ ic[t].entry = i)
                => /\ ic'[t].ob = bufs[ObBuf(i)]
                   /\ ic'[t].data = ic[t].data
                   /\ bufs'[ObBuf(i)] = << >>
        /\ (pc' = pc /\ bufs' # bufs) => (ic' = ic /\ complete' = complete)
      ]_vars

\* C20 witness: the content was frozen and promoted, and a write through a
\* clone of the handle after the freeze went into the emptied buffer.
C20_Witness ==
    /\ Len(allocs) = 1
    /\ Has(complete, TargetHash)
    /\ complete[TargetHash].data = Ones(MaxLen)
    /\ bufs[DataBuf(1)] = << 0, 1 >>

\* C21: the milestones of one import call come in the order Found,
\* CopyProgress, Size, OutboardProgress, OutboardDone; the entry goes into the
\* complete map only after OutboardDone was sent; an import that fails at the
\* read or at a send returns the error and leaves the maps as they were.
C21_Milestones ==
    [][ /\ \A t \in Threads :
              /\ \A k \in 1..Len(msgs'[t]) :
                    msgs'[t][k].kind =
                      <<"Found", "CopyProgress", "Size", "OutboardProgress", "OutboardDone">>[k]
              /\ Len(msgs'[t]) <= 5
              /\ (pc[t] = "ibs_insert" /\ pc'[t] = "idle")
                    => /\ Len(msgs[t]) = 5
                       /\ msgs'[t] = msgs[t]
                       /\ ret'[t] = "Ok"
                       /\ Has(complete', imp[t].hash)
              /\ (pc[t] # "ibs_insert" /\ pc'[t] = "idle" /\ msgs'[t] # msgs[t])
                    => /\ ret'[t] \in {"Io", "SendError"}
                       /\ Len(msgs'[t]) < 5
        /\ (complete' # complete \/ partial' # partial)
              => \E u \in Threads : pc[u] = "ibs_insert" /\ pc'[u] = "idle"
      ]_vars

\* C21 witness: an import sent its five milestones, the last import by the
\* same caller failed at the send of OutboardDone, and the hash is complete.
C21_Witness ==
    /\ ret["t1"] = "SendError"
    /\ Len(msgs["t1"]) = 4
    /\ ret["t2"] = "Ok"
    /\ Len(msgs["t2"]) = 5
    /\ msgs["t2"][5].kind = "OutboardDone"
    /\ DOMAIN complete = {TargetHash}

\* The number of chunks of a content of n bytes.
Chunks(n) == (n + ChunkSize - 1) \div ChunkSize

\* C22: an export of a content of length L calls progress once before each
\* chunk write, with the number of bytes written so far: 0, C, 2C, ..., all
\* below L, Chunks(L) calls in all and none for an empty content; a progress
\* call that fails ends the export with its error before the chunk is written.
C22_ProgressCalls ==
    [][ \A t \in Threads, h \in Hashes :
          (pc[t] = "ex_write" /\ ex[t].hash = h) =>
            /\ \A k \in 1..Len(ex[t].calls) : ex[t].calls[k] = (k - 1) * ChunkSize
            /\ ex'[t].calls # ex[t].calls
                  => /\ ex'[t].calls = Append(ex[t].calls, Len(ex[t].calls) * ChunkSize)
                     /\ Len(ex[t].calls) * ChunkSize < Len(complete[h].data)
                     /\ Len(ex[t].calls) * ChunkSize = Len(files[ex[t].target])
                     /\ ret'[t] \in {"running", "ProgressError", "Io"}
            /\ ret'[t] = "ProgressError"
                  => /\ files' = files
                     /\ pc'[t] = "idle"
                     /\ ex'[t].calls # ex[t].calls
            /\ (ret'[t] = "running" /\ ex'[t].calls # ex[t].calls)
                  => Len(files'[ex[t].target]) > Len(files[ex[t].target])
            /\ ret'[t] = "Ok"
                  => /\ Len(ex[t].calls) = Chunks(Len(complete[h].data))
                     /\ ex'[t].calls = ex[t].calls
      ]_vars

\* C22 witness: an export of a content of several chunks returned Ok after
\* the calls progress(0), progress(ChunkSize), ... and wrote the content.
C22_Witness ==
    /\ ret[Exporter] = "Ok"
    /\ ex[Exporter].hash = TargetHash
    /\ Len(ex[Exporter].calls) = Chunks(MaxLen)
    /\ Len(ex[Exporter].calls) > 1
    /\ ex[Exporter].calls[2] = ChunkSize
    /\ files[ex[Exporter].target] = Ones(MaxLen)

\* C23: the keys of the complete map only grow, and a hash leaves the partial
\* map only in the write section of an insert_complete for that hash, which
\* makes it a key of the complete map in the same step, also when the entry
\* given is not the one registered for the hash.
C23_KeysGrow ==
    [][ /\ \A h \in DOMAIN complete : h \in DOMAIN complete'
        /\ \A h \in DOMAIN partial :
              h \notin DOMAIN partial'
                => /\ h \in DOMAIN complete'
                   /\ \E t \in Threads :
                         /\ pc[t] = "ic_insert"
                         /\ pc'[t] = "idle"
                         /\ allocs[ic[t].entry].hash = h
      ]_vars

\* C23 witness: the hash was allocated twice, the reader saw the second
\* handle's buffer registered, the content written through the first handle
\* was promoted, and the hash is complete and no longer partial.
C23_Witness ==
    /\ Len(allocs) = 2
    /\ lastGet.src = "partial"
    /\ lastGet.dataBuf = DataBuf(2)
    /\ bufs[DataBuf(2)] = Ones(MaxLen)
    /\ bufs[DataBuf(1)] = << >>
    /\ Has(complete, TargetHash)
    /\ complete[TargetHash].data = Fill(MaxLen - 1, 0) \o << 1 >>
    /\ ~Has(partial, TargetHash)

\* In this step the entries of every hash other than h stay as they are:
\* their membership in both maps, their values, and the bytes of the buffers
\* of their partial entries.
FrameExcept(h) ==
    \A x \in Hashes \ {h} :
        /\ Has(complete', x) <=> Has(complete, x)
        /\ Has(complete, x) => complete'[x] = complete[x]
        /\ Has(partial', x) <=> Has(partial, x)
        /\ Has(partial, x)
              => /\ partial'[x] = partial[x]
                 /\ bufs'[partial[x].data] = bufs[partial[x].data]
                 /\ bufs'[partial[x].ob] = bufs[partial[x].ob]

\* C24: get_or_create_partial(H, n), insert_complete of an entry of H and
\* import_bytes of a content with hash H change neither the membership nor
\* the stored buffers of any other hash; get, get_partial, blobs,
\* partial_blobs, validate and export change nothing in either map.
C24_Frame ==
    [][ /\ \A i \in 1..MaxAllocs :
              (Len(allocs) = i - 1 /\ Len(allocs') = i) => FrameExcept(allocs'[i].hash)
        /\ \A t \in Threads, i \in 1..MaxAllocs :
              (pc[t] = "idle" /\ pc'[t] = "ic_freeze_outboard" /\ ic'[t].entry = i)
                => FrameExcept(allocs[i].hash)
        /\ \A t \in Threads, i \in 1..MaxAllocs :
              (pc[t] \in {"ic_freeze_outboard", "ic_insert"} /\ pc'[t] # pc[t]
                 /\ ic[t].entry = i)
                => FrameExcept(allocs[i].hash)
        /\ \A t \in Threads, h \in Hashes :
              (pc[t] = "ibs_insert" /\ pc'[t] = "idle" /\ imp[t].hash = h)
                => FrameExcept(h)
        /\ \A t \in Threads :
              (pc[t] = "idle" /\ pc'[t] = "ibs_insert")
                => (complete' = complete /\ partial' = partial /\ bufs' = bufs)
        /\ (lastGet' # lastGet \/ call' # call \/ listing' # listing \/ ex' # ex
               \/ files' # files \/ dirs' # dirs \/ readers' # readers
               \/ ret'[Reader] # ret[Reader])
              => (complete' = complete /\ partial' = partial /\ bufs' = bufs)
      ]_vars

\* C24 witness: both hashes have a partial entry, the entry of the other
\* hash was allocated first and is still registered with its buffers, and the
\* hash was imported and exported since.
C24_Witness ==
    /\ Len(allocs) = 2
    /\ allocs[1].hash = TreeHash(Ones(1))
    /\ allocs[2].hash = TargetHash
    /\ Has(partial, TreeHash(Ones(1)))
    /\ partial[TreeHash(Ones(1))].data = DataBuf(1)
    /\ bufs[DataBuf(1)] = Ones(1)
    /\ Has(partial, TargetHash)
    /\ Has(complete, TargetHash)
    /\ ret[Reader] = "Ok"
    /\ listing.op = "partial_blobs"
    /\ Len(listing.items) = 2

====
